---------------------------- MODULE Spec2Model ----------------------------
(***************************************************************************)
(* dagger_rocker: extension activation, dependency closure, load-order     *)
(* scheduling and the validate / mutate pipeline of DaggerRockerCore,      *)
(* together with the three command-line entry points that drive it.        *)
(*                                                                         *)
(* A registry (core.extensions) is a Python dict: a sequence of extension  *)
(* descriptors in insertion order, keyed by name.  An extension is the     *)
(* record of what its hooks return: name, get_dependencies(),              *)
(* get_load_order_hints(), whether check_args_for_activation is the        *)
(* always-true override, and whether setup_container returns its input.    *)
(***************************************************************************)
EXTENDS Integers, Sequences, FiniteSets, TLC

\* Largest number of dependency and hint references in a registry of test
\* extensions.
MaxEdges == 2

\* Longest active list handed to build_and_run directly.
MaxList == 3

\* Names of the test extensions (MockExtension instances), in the order a
\* caller first registers them.  The catalogue below is closed under renaming,
\* so every registry over these names occurs up to the choice of names.
MockOrder == << "a", "b", "c" >>

MockNames == { MockOrder[i] : i \in DOMAIN MockOrder }

\* Marker for "no extension name".
NoName == "-"

(***************************************************************************)
(* Extension descriptors                                                   *)
(***************************************************************************)
BasicExtension ==
    [name |-> "basic", deps |-> {}, hints |-> {}, always |-> TRUE, noop |-> TRUE]

UserExtension ==
    [name |-> "user", deps |-> {}, hints |-> {}, always |-> FALSE, noop |-> FALSE]

\* Mutant: volume declares no load-order hint.
VolumeExtension_NoHints ==
    [name |-> "volume", deps |-> {}, hints |-> {}, always |-> FALSE, noop |-> FALSE]

VolumeExtension ==
    [name |-> "volume", deps |-> {}, hints |-> {"user"}, always |-> FALSE, noop |-> FALSE]

\* Mutant: home declares the hint on user but not the dependency.
HomeExtension_NoDependencies ==
    [name |-> "home", deps |-> {}, hints |-> {"user"}, always |-> FALSE, noop |-> FALSE]

HomeExtension ==
    [name |-> "home", deps |-> {"user"}, hints |-> {"user"}, always |-> FALSE, noop |-> FALSE]

X11Extension ==
    [name |-> "x11", deps |-> {}, hints |-> {"user"}, always |-> FALSE, noop |-> FALSE]

EnvExtension ==
    [name |-> "env", deps |-> {}, hints |-> {}, always |-> FALSE, noop |-> FALSE]

NetworkExtension ==
    [name |-> "network", deps |-> {}, hints |-> {}, always |-> FALSE, noop |-> FALSE]

DetachExtension ==
    [name |-> "detach", deps |-> {}, hints |-> {}, always |-> FALSE, noop |-> FALSE]

\* MockExtension(name, dependencies, load_order_hints): default activation.
MockExtension ==
    { [name |-> n, deps |-> D, hints |-> H, always |-> FALSE, noop |-> FALSE] :
        n \in MockNames, D \in SUBSET MockNames, H \in SUBSET MockNames }

\* The extensions a caller of the core API may register.
Catalogue ==
    { e \in MockExtension : Cardinality(e.deps) + Cardinality(e.hints) <= MaxEdges }

\* The built-in extensions the tests register on a core of their own.
TestExtensions == {BasicExtension, UserExtension, VolumeExtension, HomeExtension}

\* validate_environment / setup_container bodies that cannot raise.
NeverFailsValidation == {"basic", "env"}

NeverFailsSetup == {"basic"}

\* Registration lists of the entry points.
CliExtensions ==
    << BasicExtension, UserExtension, VolumeExtension, HomeExtension,
       X11Extension, EnvExtension, NetworkExtension, DetachExtension >>

MainExtensions ==
    << BasicExtension, UserExtension, VolumeExtension, HomeExtension >>

CoreMainExtensions == << BasicExtension >>

(***************************************************************************)
(* Dict helpers: a dict is a sequence of descriptors with distinct names.  *)
(***************************************************************************)
Keys(d) == { d[i].name : i \in DOMAIN d }

Names(d) == [ i \in DOMAIN d |-> d[i].name ]

Get(d, n) == d[CHOOSE i \in DOMAIN d : d[i].name = n]

\* d[e.name] = e : an existing key keeps its position, a new key goes last.
DictSet(d, e) ==
    IF e.name \in Keys(d)
    THEN [ i \in DOMAIN d |-> IF d[i].name = e.name THEN e ELSE d[i] ]
    ELSE Append(d, e)

RECURSIVE RegisterAll(_, _)
RegisterAll(d, es) ==
    IF es = << >> THEN d ELSE RegisterAll(DictSet(d, Head(es)), Tail(es))

\* Every order in which a Python set may be iterated.
RECURSIVE Orders(_)
Orders(S) ==
    IF S = {} THEN { << >> }
    ELSE UNION { { << x >> \o p : p \in Orders(S \ {x}) } : x \in S }

(***************************************************************************)
(* State                                                                   *)
(***************************************************************************)
VARIABLES
    registered,         \* the last register_extension call: its argument, was the name taken
    extensions,         \* core.extensions
    active_extensions,  \* core.active_extensions
    entry,              \* which entry point is executing
    args,               \* the option set of the invocation
    pc,                 \* position of the invocation
    where,              \* function whose body is executing: main / run / build_and_run
    active,             \* get_active_extensions: the dict being built, then sorted
    visited,            \* topological_sort
    temp_visited,       \* topological_sort
    result,             \* topological_sort
    stack,              \* open visit() calls, innermost last
    idx,                \* position of "for name in items"
    ret,                \* last value returned by get_active_extensions
    vi,                 \* position of the validate / setup loop
    container,          \* the build request
    trace,              \* calls made on extensions and on the backend, in order
    stdout,             \* lists printed by the entry point
    outcome             \* how the invocation ended

vars == << registered, extensions, active_extensions, entry, args, pc, where, active,
           visited, temp_visited, result, stack, idx, ret, vi, container,
           trace, stdout, outcome >>

sortVars == << visited, temp_visited, result, stack, idx >>

pipeVars == << vi, container, trace >>

NoContainer == << "<none>" >>

NoReturn == << [name |-> "<none>"] >>

NoExtension == [name |-> "<none>"]

NoRegistration == [ext |-> NoExtension, existed |-> FALSE]

Running == [code |-> -1, phase |-> "running", src |-> NoName, msg |-> "", ext |-> NoName]

\* Option sets: the names stored with a truthy value, --dry-run, a command.
ArgsOver(names) ==
    [opts : SUBSET names, dry_run : BOOLEAN, command : BOOLEAN]

\* DaggerRockerCore.__init__
Init ==
    /\ registered = NoRegistration
    /\ extensions = << >>
    /\ active_extensions = << >>
    /\ entry = "none"
    /\ args = [opts |-> {}, dry_run |-> FALSE, command |-> FALSE]
    /\ pc = "idle"
    /\ where = "none"
    /\ active = << >>
    /\ visited = {}
    /\ temp_visited = {}
    /\ result = << >>
    /\ stack = << >>
    /\ idx = 1
    /\ ret = NoReturn
    /\ vi = 1
    /\ container = NoContainer
    /\ trace = << >>
    /\ stdout = << >>
    /\ outcome = Running

(***************************************************************************)
(* Errors: how an exception raised in `where` leaves the entry point.      *)
(* named is the extension name the exception's own message carries.        *)
(***************************************************************************)
\* Mutant: the entry point reports the error and still returns 0.
Propagate_ExitZero(phase, src, named) ==
    [code |-> 0, phase |-> phase, src |-> src, msg |-> "error", ext |-> named]

Propagate(phase, src, named) ==
    CASE where = "main" /\ phase = "resolve" /\ entry = "cli" ->
            [code |-> 1, phase |-> phase, src |-> src,
             msg |-> "Error determining active extensions", ext |-> named]
      [] where = "main" /\ phase = "validate" /\ entry \in {"cli", "main"} ->
            [code |-> 1, phase |-> phase, src |-> src,
             msg |-> "Error validating extension", ext |-> src]
      [] where = "main" ->
            [code |-> 1, phase |-> phase, src |-> src,
             msg |-> "traceback", ext |-> named]
      [] entry \in {"run", "build_and_run"} ->
            [code |-> -1, phase |-> phase, src |-> src,
             msg |-> "raised", ext |-> named]
      [] where \in {"run", "build_and_run"} /\ entry \in {"cli", "main"} ->
            [code |-> 1, phase |-> phase, src |-> src,
             msg |-> "Error running container", ext |-> named]
      [] OTHER ->
            [code |-> 1, phase |-> phase, src |-> src,
             msg |-> "traceback", ext |-> named]

Success ==
    [code |-> IF entry \in {"run", "build_and_run"} THEN -1 ELSE 0,
     phase |-> "ok", src |-> NoName,
     msg |-> "", ext |-> NoName]

(***************************************************************************)
(* Registry                                                                *)
(***************************************************************************)
RECURSIVE Edges(_)
Edges(d) ==
    IF d = << >> THEN 0
    ELSE Cardinality(Head(d).deps) + Cardinality(Head(d).hints) + Edges(Tail(d))

\* Mutant: a name that is already registered keeps its first extension.
register_extension_KeepFirst(d, e) ==
    IF e.name \in Keys(d) THEN d ELSE Append(d, e)

\* DaggerRockerCore.register_extension
register_extension(d, e) == DictSet(d, e)

\* core.register_extension(e) on a core that has not been run yet.  A test
\* registers either its mock extensions (in the order of MockOrder, within
\* MaxEdges) or built-in ones.
Register(e) ==
    /\ pc = "idle"
    /\ \/ /\ e \in Catalogue
          /\ Keys(extensions) \subseteq MockNames
          /\ \/ e.name \in Keys(extensions)
             \/ /\ Len(extensions) < Len(MockOrder)
                /\ e.name = MockOrder[Len(extensions) + 1]
          /\ Edges(register_extension(extensions, e)) <= MaxEdges
       \/ /\ e \in TestExtensions
          /\ \A i \in DOMAIN extensions : extensions[i] \in TestExtensions
    /\ extensions' = register_extension(extensions, e)
    /\ registered' = [ext |-> e, existed |-> e.name \in Keys(extensions)]
    /\ UNCHANGED << active_extensions, entry, args, pc, where, active, sortVars,
                    ret, pipeVars, stdout, outcome >>

(***************************************************************************)
(* Activation resolver                                                     *)
(***************************************************************************)
\* Mutant: BasicExtension does not override the default predicate.
check_args_for_activation_NoOverride(e, a) == e.name \in a.opts

\* Mutant: any truthy option activates every extension.
check_args_for_activation_AnyOption(e, a) == e.always \/ a.opts # {}

\* DaggerRockerExtension.check_args_for_activation, BasicExtension's override
check_args_for_activation(e, a) ==
    IF e.always THEN TRUE ELSE e.name \in a.opts

\* get_active_extensions, "Find initially requested extensions"
Seed(d, a) == SelectSeq(d, LAMBDA e : check_args_for_activation(e, a))

RECURSIVE AddDeps(_, _, _)
\* Mutant: a dependency is added without looking it up in the registry.
RECURSIVE AddDeps_NoRegistryCheck(_, _, _)
AddDeps_NoRegistryCheck(act, p, d) ==
    IF p = << >> THEN act
    ELSE AddDeps_NoRegistryCheck(
             IF Head(p) \notin Keys(act)
             THEN Append(act, IF Head(p) \in Keys(d) THEN Get(d, Head(p))
                              ELSE [name |-> Head(p), deps |-> {}, hints |-> {},
                                    always |-> FALSE, noop |-> FALSE])
             ELSE act,
             Tail(p), d)

\* for dep_name in ext.get_dependencies(), in the order p
AddDeps(act, p, d) ==
    IF p = << >> THEN act
    ELSE AddDeps(IF Head(p) \notin Keys(act) /\ Head(p) \in Keys(d)
                 THEN Append(act, Get(d, Head(p)))
                 ELSE act,
                 Tail(p), d)

RECURSIVE PassResults(_, _, _, _)
\* Mutant: a pass pulls in the load-order hints as well as the dependencies.
RECURSIVE PassResults_WithHints(_, _, _, _)
PassResults_WithHints(snapshot, i, act, d) ==
    IF i > Len(snapshot) THEN { act }
    ELSE UNION { PassResults_WithHints(snapshot, i + 1, AddDeps(act, p, d), d) :
                   p \in Orders(snapshot[i].deps \cup snapshot[i].hints) }

\* One pass of "for name, ext in list(active.items())": every dict the pass
\* may leave, over the iteration orders of the dependency sets.
PassResults(snapshot, i, act, d) ==
    IF i > Len(snapshot) THEN { act }
    ELSE UNION { PassResults(snapshot, i + 1, AddDeps(act, p, d), d) :
                   p \in Orders(snapshot[i].deps) }

\* get_active_extensions up to the first pass of the dependency loop
BeginGetActive(d, a) ==
    /\ active' = Seed(d, a)
    /\ ret' = NoReturn
    /\ pc' = "deps"

\* Mutant: "changed = True" is never set, so the loop makes a single pass.
Changed_Never(old, act) == FALSE

\* Mutant: "changed" is set by every pass, whether it added a name or not.
Changed_Always(old, act) == TRUE

\* the flag "changed" at the end of a pass that turned the dict old into act
Changed(old, act) == act # old

\* while changed: one pass; the sort starts when a pass adds nothing
DepPass ==
    /\ pc = "deps"
    /\ \E act \in PassResults(active, 1, active, extensions) :
          /\ active' = act
          /\ IF Changed(active, act)
             THEN pc' = "deps" /\ UNCHANGED sortVars
             ELSE \* topological_sort(extensions): fresh visited, temp_visited, result
                  /\ pc' = "sort"
                  /\ visited' = {}
                  /\ temp_visited' = {}
                  /\ result' = << >>
                  /\ stack' = << >>
                  /\ idx' = 1
    /\ UNCHANGED << registered, extensions, active_extensions, entry, args, where, ret,
                    pipeVars, stdout, outcome >>

(***************************************************************************)
(* Scheduler: _sort_extensions / topological_sort / visit                  *)
(***************************************************************************)
\* Mutant: the sort follows get_dependencies() instead of the hints.
HintsToVisit_Dependencies(name, items) ==
    IF name \in Keys(items)
    THEN { dep \in Get(items, name).deps : dep \in Keys(items) }
    ELSE {}

\* Mutant: the sort follows the hints through every registered extension,
\* active or not.
HintsToVisit_Registered(name, items) ==
    IF name \in Keys(extensions)
    THEN { dep \in Get(extensions, name).hints : dep \in Keys(extensions) }
    ELSE {}

\* Mutant: a hint of an extension on itself is skipped.
HintsToVisit_NoSelf(name, items) ==
    IF name \in Keys(items)
    THEN { dep \in Get(items, name).hints : dep \in Keys(items) /\ dep # name }
    ELSE {}

\* Mutant: the sort places the dependencies as well as the hints first.
HintsToVisit_AndDependencies(name, items) ==
    IF name \in Keys(items)
    THEN { dep \in Get(items, name).hints \cup Get(items, name).deps : dep \in Keys(items) }
    ELSE {}

\* The hinted predecessors visit(name) recurses into.
HintsToVisit(name, items) ==
    IF name \in Keys(items)
    THEN { dep \in Get(items, name).hints : dep \in Keys(items) }
    ELSE {}

\* visit(name) called with the open calls stk: raise, return at once, or
\* mark in progress and open the call.
\* Mutant: the error names the extension the outer loop was placing.
Blamed_Root(name, stk) == IF stk = << >> THEN name ELSE stk[1].name

\* the name in "Circular dependency detected involving {name}"
Blamed(name, stk) == name

\* Mutant: a name in progress is treated like a placed one (no cycle check).
EnterVisit_NoCycleCheck(name, stk) ==
    IF name \in temp_visited \cup visited
    THEN /\ stack' = stk
         /\ UNCHANGED << temp_visited, pc, outcome >>
    ELSE /\ temp_visited' = temp_visited \cup {name}
         /\ stack' = Append(stk, [name |-> name, todo |-> HintsToVisit(name, active)])
         /\ UNCHANGED << pc, outcome >>

\* Mutant: a name that is already placed is placed again.
EnterVisit_NoVisitedCheck(name, stk) ==
    IF name \in temp_visited
    THEN /\ outcome' = Propagate("resolve", Blamed(name, stk), Blamed(name, stk))
         /\ pc' = "done"
         /\ stack' = stk
         /\ UNCHANGED temp_visited
    ELSE /\ temp_visited' = temp_visited \cup {name}
         /\ stack' = Append(stk, [name |-> name, todo |-> HintsToVisit(name, active)])
         /\ UNCHANGED << pc, outcome >>

EnterVisit(name, stk) ==
    IF name \in temp_visited
    THEN /\ outcome' = Propagate("resolve", Blamed(name, stk), Blamed(name, stk))
         /\ pc' = "done"
         /\ stack' = stk
         /\ UNCHANGED temp_visited
    ELSE IF name \in visited
    THEN /\ stack' = stk
         /\ UNCHANGED << temp_visited, pc, outcome >>
    ELSE /\ temp_visited' = temp_visited \cup {name}
         /\ stack' = Append(stk, [name |-> name, todo |-> HintsToVisit(name, active)])
         /\ UNCHANGED << pc, outcome >>

\* for name in items: visit(name)
SortNext ==
    /\ pc = "sort"
    /\ stack = << >>
    /\ idx <= Len(active)
    /\ idx' = idx + 1
    /\ EnterVisit(active[idx].name, stack)
    /\ UNCHANGED << registered, extensions, active_extensions, entry, args, where, active,
                    visited, result, ret, pipeVars, stdout >>

\* for dep in ext.get_load_order_hints(): if dep in items: visit(dep)
VisitHint ==
    /\ pc = "sort"
    /\ stack # << >>
    /\ LET top == stack[Len(stack)] IN
         \E dep \in top.todo :
            EnterVisit(dep, [stack EXCEPT ![Len(stack)].todo = top.todo \ {dep}])
    /\ UNCHANGED << registered, extensions, active_extensions, entry, args, where, active,
                    visited, result, idx, ret, pipeVars, stdout >>

\* Mutant: visit(name) marks the name done without leaving in-progress.
VisitReturn_KeepTemp ==
    /\ pc = "sort"
    /\ stack # << >>
    /\ LET top == stack[Len(stack)] IN
         /\ top.todo = {}
         /\ visited' = visited \cup {top.name}
         /\ result' = IF top.name \in Keys(active)
                      THEN Append(result, Get(active, top.name))
                      ELSE result
         /\ stack' = SubSeq(stack, 1, Len(stack) - 1)
    /\ UNCHANGED << registered, extensions, active_extensions, entry, args, pc, where, active,
                    temp_visited, idx, ret, pipeVars, stdout, outcome >>

\* the tail of visit(name): leave in-progress, mark done, append
VisitReturn ==
    /\ pc = "sort"
    /\ stack # << >>
    /\ LET top == stack[Len(stack)] IN
         /\ top.todo = {}
         /\ temp_visited' = temp_visited \ {top.name}
         /\ visited' = visited \cup {top.name}
         /\ result' = IF top.name \in Keys(active)
                      THEN Append(result, Get(active, top.name))
                      ELSE result
         /\ stack' = SubSeq(stack, 1, Len(stack) - 1)
    /\ UNCHANGED << registered, extensions, active_extensions, entry, args, pc, where, active,
                    idx, ret, pipeVars, stdout, outcome >>

\* return result; the caller stores it in core.active_extensions, and an
\* entry point prints it.
SortReturn ==
    /\ pc = "sort"
    /\ stack = << >>
    /\ idx > Len(active)
    /\ ret' = result
    /\ active_extensions' = result
    /\ stdout' = IF where = "main"
                 THEN Append(stdout, [tag |-> "active", names |-> Names(result)])
                 ELSE stdout
    /\ pc' = "validate"
    /\ vi' = 1
    /\ UNCHANGED << registered, extensions, entry, args, where, active, sortVars, container,
                    trace, outcome >>

(***************************************************************************)
(* get_active_extensions as a function of the registry and the options,    *)
(* with every set iterated in one fixed order.                             *)
(***************************************************************************)
FixedOrder(S) == CHOOSE p \in Orders(S) : TRUE

\* while changed: ... with the first iteration order of each dependency set
RECURSIVE DepClosure(_, _)
DepClosure(act, d) ==
    LET nxt == CHOOSE x \in PassResults(act, 1, act, d) : TRUE
    IN IF nxt = act THEN act ELSE DepClosure(nxt, d)

\* visit(name) and the loops calling it; st.raised is the name of the
\* circular-dependency error, if any
RECURSIVE VisitValue(_, _, _)
RECURSIVE VisitEach(_, _, _)
VisitValue(name, items, st) ==
    IF st.raised # NoName THEN st
    ELSE IF name \in st.temp_visited THEN [st EXCEPT !.raised = name]
    ELSE IF name \in st.visited THEN st
    ELSE LET inner == VisitEach(FixedOrder(HintsToVisit(name, items)), items,
                                [st EXCEPT !.temp_visited = @ \cup {name}])
         IN IF inner.raised # NoName THEN inner
            ELSE [inner EXCEPT !.temp_visited = @ \ {name},
                               !.visited = @ \cup {name},
                               !.result = Append(@, Get(items, name))]

VisitEach(p, items, st) ==
    IF p = << >> THEN st
    ELSE VisitEach(Tail(p), items, VisitValue(Head(p), items, st))

get_active_extensions(d, a) ==
    LET items == DepClosure(Seed(d, a), d)
    IN VisitEach(Names(items), items,
                 [visited |-> {}, temp_visited |-> {}, result |-> << >>,
                  raised |-> NoName])

(***************************************************************************)
(* Pipeline: validate loop, backend connection, mutate fold, command       *)
(***************************************************************************)
Event(op, name, ok, cin, cout) ==
    [op |-> op, ext |-> name, ok |-> ok, by |-> where, cin |-> cin, cout |-> cout]

ValidationOutcomes(e) ==
    IF e.name \in NeverFailsValidation THEN {TRUE} ELSE BOOLEAN

SetupOutcomes(e) ==
    IF e.name \in NeverFailsSetup THEN {TRUE} ELSE BOOLEAN

\* Mutant: every extension, a no-op one included, adds its layer.
SetupResult_AlwaysAppend(e, c) == Append(c, e.name)

\* the container setup_container(container, args) returns
SetupResult(e, c) == IF e.noop THEN c ELSE Append(c, e.name)

\* Mutant: a failed validation is swallowed and the loop goes on.
ValidateStep_Swallow(ok) ==
    LET ext == active_extensions[vi] IN
    /\ trace' = Append(trace, Event("validate", ext.name, ok, NoContainer, NoContainer))
    /\ vi' = vi + 1
    /\ UNCHANGED << pc, outcome >>

\* the body of "for ext in ...active_extensions: ext.validate_environment(args)"
ValidateStep(ok) ==
    LET ext == active_extensions[vi] IN
    /\ trace' = Append(trace, Event("validate", ext.name, ok, NoContainer, NoContainer))
    /\ IF ok
       THEN /\ vi' = vi + 1
            /\ UNCHANGED << pc, outcome >>
       ELSE /\ outcome' = Propagate("validate", ext.name, NoName)
            /\ pc' = "done"
            /\ UNCHANGED vi

Validate ==
    /\ pc = "validate"
    /\ vi <= Len(active_extensions)
    /\ \E ok \in ValidationOutcomes(active_extensions[vi]) : ValidateStep(ok)
    /\ UNCHANGED << registered, extensions, active_extensions, entry, args, where, active,
                    sortVars, ret, container, stdout >>

ValidationDone == pc = "validate" /\ vi > Len(active_extensions)

\* Mutant: the dry-run block lists the extensions the options requested.
DryRunReport_RequestedOnly ==
    IF entry = "cli"
    THEN << [tag |-> "order", names |-> Names(Seed(extensions, args))] >>
    ELSE << >>

\* the names the dry-run block lists
DryRunReport ==
    IF entry = "cli"
    THEN << [tag |-> "order", names |-> Names(active_extensions)] >>
    ELSE << >>

\* Mutant: the flag is looked up under a key the parser never sets.
DryRunRequested_Never(a) == FALSE

\* args_dict.get('dry_run')
DryRunRequested(a) == a.dry_run

\* if args_dict.get('dry_run'): ... return
DryRun ==
    /\ ValidationDone
    /\ where = "main"
    /\ DryRunRequested(args)
    /\ stdout' = stdout \o DryRunReport
    /\ outcome' = Success
    /\ pc' = "done"
    /\ UNCHANGED << registered, extensions, active_extensions, entry, args, where, active,
                    sortVars, ret, pipeVars >>

\* Mutant: core.run goes straight to the backend with the list main stored.
CallCoreRun_NoSecondPass ==
    /\ ValidationDone
    /\ where = "main"
    /\ entry = "cli"
    /\ ~DryRunRequested(args)
    /\ where' = "run"
    /\ pc' = "connect"
    /\ UNCHANGED << registered, extensions, active_extensions, entry, args, active,
                    sortVars, ret, pipeVars, stdout, outcome >>

\* cli.main: result = await core.run(args_dict)
CallCoreRun ==
    /\ ValidationDone
    /\ where = "main"
    /\ entry = "cli"
    /\ ~DryRunRequested(args)
    /\ where' = "run"
    /\ BeginGetActive(extensions, args)
    /\ UNCHANGED << registered, extensions, active_extensions, entry, args, sortVars,
                    pipeVars, stdout, outcome >>

\* Mutant: main calls build_and_run before its validate loop.
CallBuildAndRun_BeforeValidation ==
    /\ pc = "validate"
    /\ vi = 1
    /\ where = "main"
    /\ entry \in {"main", "core_main"}
    /\ ~DryRunRequested(args)
    /\ where' = "build_and_run"
    /\ pc' = "connect"
    /\ UNCHANGED << registered, extensions, active_extensions, entry, args, active,
                    sortVars, ret, pipeVars, stdout, outcome >>

\* main.main, core.main: await core.build_and_run(args_dict)
CallBuildAndRun ==
    /\ ValidationDone
    /\ where = "main"
    /\ entry \in {"main", "core_main"}
    /\ ~DryRunRequested(args)
    /\ where' = "build_and_run"
    /\ pc' = "connect"
    /\ UNCHANGED << registered, extensions, active_extensions, entry, args, active, sortVars,
                    ret, pipeVars, stdout, outcome >>

\* async with dagger.Connection(...) as client:
\*     container = client.container().from_(args['image'])
OpenBackend(ok) ==
    IF ok
    THEN /\ trace' = trace \o << Event("connect", NoName, TRUE, NoContainer, NoContainer),
                                 Event("from", NoName, TRUE, NoContainer, << "image" >>) >>
         /\ container' = << "image" >>
         /\ vi' = 1
         /\ pc' = "setup"
         /\ UNCHANGED outcome
    ELSE /\ trace' = Append(trace, Event("connect", NoName, FALSE, NoContainer, NoContainer))
         /\ outcome' = Propagate("backend", NoName, NoName)
         /\ pc' = "done"
         /\ UNCHANGED << container, vi >>

Connect ==
    /\ \/ ValidationDone /\ where = "run"
       \/ pc = "connect"
    /\ \E ok \in BOOLEAN : OpenBackend(ok)
    /\ UNCHANGED << registered, extensions, active_extensions, entry, args, where, active,
                    sortVars, ret, stdout >>

\* Mutant: the container setup_container returns is not stored.
SetupStep_Discard(ok) ==
    LET ext == active_extensions[vi] IN
    IF ok
    THEN /\ trace' = Append(trace, Event("setup", ext.name, TRUE, container,
                                         SetupResult(ext, container)))
         /\ vi' = vi + 1
         /\ UNCHANGED << container, pc, outcome >>
    ELSE /\ trace' = Append(trace, Event("setup", ext.name, FALSE, container, NoContainer))
         /\ outcome' = Propagate("setup", ext.name, NoName)
         /\ pc' = "done"
         /\ UNCHANGED << container, vi >>

\* Mutant: a failed setup_container is skipped and the loop goes on.
SetupStep_KeepGoing(ok) ==
    LET ext == active_extensions[vi] IN
    /\ trace' = Append(trace, Event("setup", ext.name, ok, container,
                                    IF ok THEN SetupResult(ext, container) ELSE container))
    /\ container' = IF ok THEN SetupResult(ext, container) ELSE container
    /\ vi' = vi + 1
    /\ UNCHANGED << pc, outcome >>

\* the body of "for ext in self.active_extensions:
\*                  container = await ext.setup_container(container, args)"
SetupStep(ok) ==
    LET ext == active_extensions[vi] IN
    IF ok
    THEN /\ trace' = Append(trace, Event("setup", ext.name, TRUE, container,
                                         SetupResult(ext, container)))
         /\ container' = SetupResult(ext, container)
         /\ vi' = vi + 1
         /\ UNCHANGED << pc, outcome >>
    ELSE /\ trace' = Append(trace, Event("setup", ext.name, FALSE, container, NoContainer))
         /\ outcome' = Propagate("setup", ext.name, NoName)
         /\ pc' = "done"
         /\ UNCHANGED << container, vi >>

Setup ==
    /\ pc = "setup"
    /\ vi <= Len(active_extensions)
    /\ \E ok \in SetupOutcomes(active_extensions[vi]) : SetupStep(ok)
    /\ UNCHANGED << registered, extensions, active_extensions, entry, args, where, active,
                    sortVars, ret, stdout >>

\* Mutant: the requested command is ignored.
Command_AlwaysDefault == "/bin/bash"

\* the command handed to with_exec
Command ==
    IF args.command THEN "command"
    ELSE IF where = "run" THEN "echo No command specified"
    ELSE "/bin/bash"

ExecStep(ok) ==
    /\ trace' = Append(trace, Event("exec", Command, ok, container, container))
    /\ outcome' = IF ok THEN Success ELSE Propagate("exec", NoName, NoName)
    /\ pc' = "done"

Execute ==
    /\ pc = "setup"
    /\ vi > Len(active_extensions)
    /\ \E ok \in BOOLEAN : ExecStep(ok)
    /\ UNCHANGED << registered, extensions, active_extensions, entry, args, where, active,
                    sortVars, ret, vi, container, stdout >>

(***************************************************************************)
(* Invocations                                                             *)
(***************************************************************************)
\* the options a test passes to a core holding the registry d
TestOptions(d) ==
    IF Keys(d) \subseteq MockNames THEN MockNames
    ELSE { e.name : e \in TestExtensions } \ {"basic"}

AllTestOptions == MockNames \cup ({ e.name : e \in TestExtensions } \ {"basic"})

\* await core.run(args) on a core set up by its caller
CallRun(a) ==
    /\ pc = "idle"
    /\ entry = "none"
    /\ a.opts \subseteq TestOptions(extensions)
    /\ ~a.dry_run
    /\ entry' = "run"
    /\ args' = a
    /\ where' = "run"
    /\ BeginGetActive(extensions, a)
    /\ registered' = NoRegistration
    /\ UNCHANGED << extensions, active_extensions, sortVars, pipeVars,
                    stdout, outcome >>

\* await core.build_and_run(args) on a core with nothing registered, whatever
\* its caller stored in core.active_extensions
CallBuild(a) ==
    /\ pc = "idle"
    /\ entry = "none"
    /\ extensions = << >>
    /\ entry' = "build_and_run"
    /\ args' = a
    /\ where' = "build_and_run"
    /\ pc' = "connect"
    /\ UNCHANGED << registered, extensions, active_extensions, active, sortVars,
                    ret, pipeVars, stdout, outcome >>

EntryExtensions(ep) ==
    CASE ep = "cli" -> CliExtensions
      [] ep = "main" -> MainExtensions
      [] ep = "core_main" -> CoreMainExtensions

\* the options the entry point's parser can produce
EntryArgs(ep) == ArgsOver(Keys(EntryExtensions(ep)) \ {"basic"})

\* cli.main, main.main, core.main up to the first pass of the dependency loop
CallMain(ep, a) ==
    /\ pc = "idle"
    /\ entry = "none"
    /\ extensions = << >>
    /\ entry' = ep
    /\ args' = a
    /\ where' = "main"
    /\ extensions' = RegisterAll(<< >>, EntryExtensions(ep))
    /\ registered' = NoRegistration
    /\ BeginGetActive(extensions', a)
    /\ UNCHANGED << active_extensions, sortVars, pipeVars, stdout, outcome >>

Next ==
    \/ \E e \in Catalogue \cup TestExtensions : Register(e)
    \/ \E a \in ArgsOver(AllTestOptions) : CallRun(a)
    \/ \E ep \in {"cli", "main", "core_main"} : \E a \in EntryArgs(ep) : CallMain(ep, a)
    \/ \E a \in ArgsOver({}) : CallBuild(a)
    \/ DepPass
    \/ SortNext
    \/ VisitHint
    \/ VisitReturn
    \/ SortReturn
    \/ Validate
    \/ DryRun
    \/ CallCoreRun
    \/ CallBuildAndRun
    \/ Connect
    \/ Setup
    \/ Execute

Spec == Init /\ [][Next]_vars

(***************************************************************************)
(* get_active_extensions as a relation: every value the call can produce   *)
(* for a registry and options, over all iteration orders of the sets.      *)
(***************************************************************************)
\* while changed: ... every dict the loop can end with
RECURSIVE ClosureAll(_, _)
ClosureAll(act, d) ==
    UNION { IF nxt = act THEN { act } ELSE ClosureAll(nxt, d) :
              nxt \in PassResults(act, 1, act, d) }

\* visit(name) and the loops calling it, over every order of the hints
RECURSIVE VisitAll(_, _, _)
RECURSIVE EachAll(_, _, _)
VisitAll(name, items, st) ==
    IF st.raised # NoName THEN { st }
    ELSE IF name \in st.temp_visited THEN { [st EXCEPT !.raised = name] }
    ELSE IF name \in st.visited THEN { st }
    ELSE LET inners == UNION { EachAll(p, items, [st EXCEPT !.temp_visited = @ \cup {name}]) :
                                 p \in Orders(HintsToVisit(name, items)) }
         IN { IF inner.raised # NoName THEN inner
              ELSE [inner EXCEPT !.temp_visited = @ \ {name},
                                 !.visited = @ \cup {name},
                                 !.result = Append(@, Get(items, name))] :
                inner \in inners }

EachAll(p, items, st) ==
    IF p = << >> THEN { st }
    ELSE UNION { EachAll(Tail(p), items, s2) : s2 \in VisitAll(Head(p), items, st) }

AllResults(d, a) ==
    UNION { EachAll(Names(items), items,
                    [visited |-> {}, temp_visited |-> {}, result |-> << >>,
                     raised |-> NoName]) :
              items \in ClosureAll(Seed(d, a), d) }

(***************************************************************************)
(* run called again and again on the same core.  The locals of the call    *)
(* that ended are gone; core.extensions and core.active_extensions stay.   *)
(***************************************************************************)
\* Mutant: the call starts from the list the previous call left in
\* core.active_extensions.
CallRunAgain_KeepsActive(a) ==
    /\ pc = "done"
    /\ entry = "run"
    /\ a.opts \subseteq TestOptions(extensions)
    /\ ~a.dry_run
    /\ args' = a
    /\ active' = Seed(extensions, a) \o
                   SelectSeq(active_extensions,
                             LAMBDA e : e.name \notin Keys(Seed(extensions, a)))
    /\ ret' = NoReturn
    /\ pc' = "deps"
    /\ visited' = {}
    /\ temp_visited' = {}
    /\ result' = << >>
    /\ stack' = << >>
    /\ idx' = 1
    /\ vi' = 1
    /\ container' = NoContainer
    /\ trace' = << >>
    /\ outcome' = Running
    /\ UNCHANGED << registered, extensions, active_extensions, entry, where, stdout >>

\* await core.run(args) after an earlier call on the same core has ended
CallRunAgain(a) ==
    /\ pc = "done"
    /\ entry = "run"
    /\ a.opts \subseteq TestOptions(extensions)
    /\ ~a.dry_run
    /\ args' = a
    /\ BeginGetActive(extensions, a)
    /\ visited' = {}
    /\ temp_visited' = {}
    /\ result' = << >>
    /\ stack' = << >>
    /\ idx' = 1
    /\ vi' = 1
    /\ container' = NoContainer
    /\ trace' = << >>
    /\ outcome' = Running
    /\ UNCHANGED << registered, extensions, active_extensions, entry, where, stdout >>

NextAgain ==
    \/ \E e \in Catalogue : Register(e)
    \/ \E a \in ArgsOver(MockNames) : CallRun(a)
    \/ \E a \in ArgsOver(MockNames) : CallRunAgain(a)
    \/ DepPass
    \/ SortNext
    \/ VisitHint
    \/ VisitReturn
    \/ SortReturn
    \/ Validate
    \/ Connect
    \/ Setup
    \/ Execute

SpecAgain == Init /\ [][NextAgain]_vars

(***************************************************************************)
(* build_and_run called directly: it mutates and executes whatever list    *)
(* its caller stored in core.active_extensions.                            *)
(***************************************************************************)
\* extensions without dependencies or hints, one of them (basic) a no-op
BuildExtensions ==
    {BasicExtension} \cup { e \in MockExtension : e.deps = {} /\ e.hints = {} }

RECURSIVE BuildListsOf(_)
BuildListsOf(n) ==
    IF n = 0 THEN { << >> }
    ELSE LET shorter == BuildListsOf(n - 1)
         IN  shorter \cup { Append(q, e) : q \in shorter, e \in BuildExtensions }

\* ordered lists of distinct extensions, at most MaxList long
BuildLists ==
    { q \in BuildListsOf(MaxList) : Cardinality(Keys(q)) = Len(q) }

InitBuild ==
    /\ registered = NoRegistration
    /\ extensions = << >>
    /\ active_extensions \in BuildLists
    /\ entry = "none"
    /\ args = [opts |-> {}, dry_run |-> FALSE, command |-> FALSE]
    /\ pc = "idle"
    /\ where = "none"
    /\ active = << >>
    /\ visited = {}
    /\ temp_visited = {}
    /\ result = << >>
    /\ stack = << >>
    /\ idx = 1
    /\ ret = NoReturn
    /\ vi = 1
    /\ container = NoContainer
    /\ trace = << >>
    /\ stdout = << >>
    /\ outcome = Running

NextBuild ==
    \/ \E a \in ArgsOver({}) : CallBuild(a)
    \/ Connect
    \/ Setup
    \/ Execute

SpecBuild == InitBuild /\ [][NextBuild]_vars

\* the loop "for extension in ...: container = extension.setup_container(...)"
\* as a function of the list and the base container
RECURSIVE SetupAll(_, _)
SetupAll(list, c) ==
    IF list = << >> THEN c
    ELSE SetupAll(Tail(list), SetupResult(Head(list), c))

(***************************************************************************)
(* Properties                                                              *)
(***************************************************************************)
Range(q) == { q[i] : i \in DOMAIN q }

\* position of the extension named n in the list q (0 when absent)
Pos(q, n) == IF n \in Keys(q) THEN CHOOSE i \in DOMAIN q : q[i].name = n ELSE 0

\* the hints of n that are in the active set items
ActiveHints(n, items) == Get(items, n).hints \cap Keys(items)

\* the names reachable from the set S along active hints
RECURSIVE HintReach(_, _)
HintReach(S, items) ==
    LET T == S \cup UNION { ActiveHints(m, items) : m \in S }
    IN IF T = S THEN S ELSE HintReach(T, items)

\* n lies on a cycle of the hint relation restricted to items
OnHintCycle(n, items) ==
    n \in Keys(items) /\ n \in HintReach(ActiveHints(n, items), items)

HasHintCycle(items) == \E n \in Keys(items) : OnHintCycle(n, items)

Returned == ret # NoReturn

RaisedCircular == pc = "done" /\ outcome.phase = "resolve"

\* C1: whenever get_active_extensions returns a list, every extension in it
\* comes strictly after each of its load-order hints that is in the active set.
C1_HintsPrecede ==
    Returned =>
        \A i \in DOMAIN ret : \A p \in ret[i].hints :
            p \in Keys(active) => (Pos(ret, p) >= 1 /\ Pos(ret, p) < i)

\* C1 witness: a list was returned in which a hinted predecessor was moved in
\* front of an extension the active dict listed before it.
C1_Witness ==
    /\ Returned
    /\ \E i, j \in DOMAIN active :
          /\ i < j
          /\ active[j].name \in active[i].hints
          /\ Pos(ret, active[j].name) < Pos(ret, active[i].name)

\* C2: the returned extensions include every registered extension whose
\* activation predicate holds for the options, and every registered dependency
\* of a returned extension is returned too.
C2_ClosedUnderDependencies ==
    Returned =>
        /\ \A i \in DOMAIN extensions :
              check_args_for_activation(extensions[i], args) => extensions[i] \in Range(ret)
        /\ \A i \in DOMAIN ret : \A d \in ret[i].deps :
              d \in Keys(extensions) => Get(extensions, d) \in Range(ret)

\* C2 witness: a returned extension that no option requested and that is only
\* reached through a dependency of a dependency.
C2_Witness ==
    /\ Returned
    /\ \E x, y, z \in Range(ret) :
          /\ x.name \in args.opts
          /\ y.name \notin args.opts /\ z.name \notin args.opts
          /\ y.name \in x.deps /\ z.name \in y.deps /\ z.name \notin x.deps
          /\ x.name # y.name /\ y.name # z.name /\ x.name # z.name

\* progress measure of the sort: calls and hint checks still to be made
RECURSIVE SumTodo(_)
SumTodo(stk) == IF stk = << >> THEN 0 ELSE Cardinality(Head(stk).todo) + SumTodo(Tail(stk))

RECURSIVE SumUnentered(_, _)
SumUnentered(S, items) ==
    IF S = {} THEN 0
    ELSE LET n == CHOOSE m \in S : TRUE
         IN Cardinality(ActiveHints(n, items)) + 2 + SumUnentered(S \ {n}, items)

SortMeasure ==
    (Len(active) + 1 - idx) + SumTodo(stack) + Len(stack)
      + SumUnentered(Keys(active) \ (visited \cup temp_visited), active)

\* C3: when the hints among the active extensions contain a cycle, the sort
\* never returns a list; while it runs it can always take a step and every
\* step lowers a bounded measure, so it ends, and it ends by raising the
\* circular-dependency error.
C3_CycleRaises ==
    /\ [](HasHintCycle(active) /\ pc \notin {"idle", "deps"} =>
            /\ ~Returned
            /\ (pc = "sort" => ENABLED (SortNext \/ VisitHint \/ VisitReturn))
            /\ (pc = "done" => RaisedCircular))
    /\ [][pc = "sort" /\ pc' = "sort" =>
            SortMeasure' < SortMeasure /\ SortMeasure' >= 0]_vars

\* C3 witness: the error was raised for two active extensions hinting each other.
C3_Witness ==
    /\ RaisedCircular
    /\ \E x, y \in Range(active) :
          x.name # y.name /\ y.name \in x.hints /\ x.name \in y.hints

\* C4: the name the circular-dependency error reports is an active extension
\* that lies on a cycle of the hints restricted to the active set.
C4_BlamedOnCycle ==
    RaisedCircular => OnHintCycle(outcome.ext, active)

\* C4 witness: the error was raised while placing an extension that leads into
\* a cycle without lying on one.
C4_Witness ==
    /\ RaisedCircular
    /\ stack # << >>
    /\ ~OnHintCycle(stack[1].name, active)

CliEntry == entry \in {"cli", "main", "core_main"}

BackendOps == {"connect", "from", "setup", "exec"}

EventsOf(ops) == SelectSeq(trace, LAMBDA ev : ev.op \in ops)

EventNames(q) == [ i \in DOMAIN q |-> q[i].ext ]

\* C5: in a dry-run execution of an entry point nothing but validation is
\* ever called: no setup_container, no backend connection, no command, and
\* neither core.run nor core.build_and_run is entered.
C5_DryRunNoBackend ==
    CliEntry /\ args.dry_run =>
        /\ where = "main"
        /\ container = NoContainer
        /\ \A j \in DOMAIN trace : trace[j].op = "validate"

\* C5 witness: a dry run of cli.main finished with several extensions active.
C5_Witness ==
    /\ entry = "cli" /\ args.dry_run
    /\ pc = "done" /\ outcome.phase = "ok"
    /\ Len(active_extensions) >= 3

\* C6: a dry run whose validations pass ends with exit code 0 and every list
\* it prints is the list get_active_extensions returns for the options; a run
\* without --dry-run applies its mutations in that same order.
C6_DryRunReportsOrder ==
    LET expected == Names(get_active_extensions(extensions, args).result) IN
    CliEntry /\ pc = "done" /\ outcome.phase \notin {"resolve", "validate"} =>
        IF args.dry_run
        THEN /\ outcome.code = 0
             /\ stdout # << >>
             /\ \A k \in DOMAIN stdout : stdout[k].names = Names(ret)
             /\ Names(ret) = expected
        ELSE LET applied == EventNames(EventsOf({"setup"})) IN
             /\ Len(applied) <= Len(expected)
             /\ applied = SubSeq(expected, 1, Len(applied))
             /\ outcome.phase = "ok" => applied = expected

\* C6 witness: a dry run of cli.main reported an order that differs from the
\* order in which the resolver collected the extensions.
C6_Witness ==
    /\ entry = "cli" /\ args.dry_run
    /\ pc = "done" /\ outcome.phase = "ok"
    /\ \E k \in DOMAIN stdout : stdout[k].tag = "order" /\ stdout[k].names # Names(active)

\* the functions whose validate loop runs before the backend is reached
Validators ==
    CASE entry = "cli" -> {"main", "run"}
      [] entry = "run" -> {"run"}
      [] OTHER -> {"main"}

ValidatedBy(w) ==
    EventNames(SelectSeq(trace, LAMBDA ev : ev.op = "validate" /\ ev.by = w))

\* C7: while validation runs no build request exists and the backend has not
\* been touched; once the backend is touched, every active extension has been
\* validated, in list order and without error, by each validate loop on the
\* path, and no validation follows.
C7_ValidateBeforeMutate ==
    /\ pc = "validate" => container = NoContainer /\ EventsOf(BackendOps) = << >>
    /\ \A j \in DOMAIN trace :
          trace[j].op \in BackendOps =>
              /\ \A k \in DOMAIN trace : trace[k].op = "validate" => k < j /\ trace[k].ok
              /\ \A w \in Validators : ValidatedBy(w) = Names(active_extensions)

\* C7 witness: a setup_container call was made with two or more extensions active.
C7_Witness ==
    /\ Len(active_extensions) >= 2
    /\ \E j \in DOMAIN trace : trace[j].op = "setup"

\* C8: a failing validate_environment ends the run at once (it is the last
\* call made) and the failure is reported as that extension's, by name.
C8_ValidationFailureNamed ==
    \A j \in DOMAIN trace :
        trace[j].op = "validate" /\ ~trace[j].ok =>
            /\ j = Len(trace)
            /\ pc = "done"
            /\ outcome.phase = "validate"
            /\ outcome.src = trace[j].ext
            /\ outcome.ext = trace[j].ext

\* position of the event that creates the initial container
FromIdx == CHOOSE j \in DOMAIN trace : trace[j].op = "from"

\* C9: the mutate phase is a left fold: the k-th setup_container call is that
\* of the k-th active extension, it receives the container its predecessor
\* returned (the first one the container made from the image), and the command
\* runs once all have been called, on the container the last one returned.
C9_LeftFold ==
    \A j \in DOMAIN trace :
        /\ trace[j].op = "from" => trace[j].cout = << "image" >>
        /\ trace[j].op \in {"setup", "exec"} =>
              /\ j > 1
              /\ trace[j - 1].op \in {"from", "setup"}
              /\ trace[j - 1].ok
              /\ trace[j].cin = trace[j - 1].cout
        /\ trace[j].op = "setup" =>
              /\ j - FromIdx \in DOMAIN active_extensions
              /\ trace[j].ext = active_extensions[j - FromIdx].name
              /\ trace[j].ok =>
                    trace[j].cout = SetupResult(active_extensions[j - FromIdx], trace[j].cin)
        /\ trace[j].op = "exec" => j - FromIdx = Len(active_extensions) + 1

\* C9 witness: a command was executed on a container two extensions changed.
C9_Witness ==
    \E j \in DOMAIN trace : trace[j].op = "exec" /\ Len(trace[j].cin) >= 3

\* C10: a failing setup_container ends the run: it is the last call made (no
\* later setup, no command), it was called once, and the entry point reports
\* the error with a non-zero exit code (core.run raises it).
C10_SetupFailureAborts ==
    \A j \in DOMAIN trace :
        trace[j].op = "setup" /\ ~trace[j].ok =>
            /\ j = Len(trace)
            /\ pc = "done"
            /\ outcome.phase = "setup"
            /\ outcome.src = trace[j].ext
            /\ Cardinality({ k \in DOMAIN trace :
                   trace[k].op = "setup" /\ trace[k].ext = trace[j].ext }) = 1
            /\ IF CliEntry THEN outcome.code # 0 /\ outcome.msg # ""
               ELSE outcome.msg = "raised"

\* C10 witness: cli.main ended on a failing setup_container with extensions
\* still to be set up.
C10_Witness ==
    /\ entry = "cli"
    /\ \E j \in DOMAIN trace :
          /\ trace[j].op = "setup" /\ ~trace[j].ok
          /\ j - FromIdx < Len(active_extensions)


\* the list q without its element at position p
Remove(q, p) == SubSeq(q, 1, p - 1) \o SubSeq(q, p + 1, Len(q))

\* C11: an extension whose setup_container returns its input unchanged never
\* alters the final build request: wherever it stands in the ordered list,
\* the container the command is executed on is the one the list without it
\* yields.
C11_NoOpNeutral ==
    \A i \in DOMAIN trace :
        trace[i].op = "exec" =>
            \A p \in DOMAIN active_extensions :
                active_extensions[p].noop =>
                    trace[i].cin = SetupAll(Remove(active_extensions, p), << "image" >>)

C11_Witness ==
    /\ \E i \in DOMAIN trace : trace[i].op = "exec"
    /\ Len(active_extensions) = 3
    /\ active_extensions[2].noop
    /\ container = << "image", active_extensions[1].name, active_extensions[3].name >>

\* C12: with basic, user and home registered (in any order) and only home
\* requested, get_active_extensions returns exactly basic, user and home,
\* each once, with user before home.
C12_HomeScenario ==
    ( /\ Returned
      /\ Range(extensions) = {BasicExtension, UserExtension, HomeExtension}
      /\ args.opts = {"home"} )
    => /\ Len(ret) = 3
       /\ Range(ret) = {BasicExtension, UserExtension, HomeExtension}
       /\ Pos(ret, "user") < Pos(ret, "home")

C12_Witness ==
    /\ Returned
    /\ extensions = << HomeExtension, BasicExtension, UserExtension >>
    /\ args.opts = {"home"}
    /\ Names(ret) = << "user", "home", "basic" >>

\* C13: the list returned by get_active_extensions always contains the
\* 'basic' extension, whatever was registered on the core and whatever the
\* options are, so it is never empty.
C13_BasicAlwaysActive ==
    Returned => "basic" \in Keys(ret) /\ ret # << >>

\* the registered names whose activation predicate holds
SeedNames(d, a) == { d[i].name : i \in { j \in DOMAIN d : d[j].always \/ d[j].name \in a.opts } }

\* the least superset of S closed under the dependencies registered in d
RECURSIVE DepReach(_, _)
DepReach(S, d) ==
    LET T == S \cup { x \in Keys(d) : \E n \in S : x \in Get(d, n).deps }
    IN  IF T = S THEN S ELSE DepReach(T, d)

\* the names the invocation's options activate
ExpectedNames == DepReach(SeedNames(extensions, args), extensions)

ExpectedActive == SelectSeq(extensions, LAMBDA e : e.name \in ExpectedNames)

\* C14: a load-order hint naming an extension outside the active set
\* (registered but not activated, or not registered) is ignored: resolution
\* raises only for a cycle among the hints between active extensions, the
\* hinted extension is not in the result, and the hinting extension is.
C14_InactiveHintIgnored ==
    /\ RaisedCircular => HasHintCycle(ExpectedActive)
    /\ Returned =>
          \A i \in DOMAIN extensions :
              \A h \in extensions[i].hints \ ExpectedNames :
                  /\ h \notin Keys(ret)
                  /\ extensions[i].name \in ExpectedNames => extensions[i] \in Range(ret)

C14_Witness ==
    /\ Returned
    /\ \E e \in Range(ret) :
          /\ \E h \in e.hints : h \in Keys(extensions) \ Keys(ret)
          /\ \E h \in e.hints : h \notin Keys(extensions)

\* the registry d with every dependency on an unregistered name left out
WithoutUnknownDeps(d) == [ i \in DOMAIN d |-> [d[i] EXCEPT !.deps = @ \cap Keys(d)] ]

\* C15: a dependency name absent from the registry is silently ignored:
\* it raises no error, it never appears in the result, and the extensions
\* resolved are those resolved when that dependency is not declared.
C15_UnknownDependencyIgnored ==
    LET undeclared == get_active_extensions(WithoutUnknownDeps(extensions), args)
    IN  /\ Returned =>
              /\ Keys(ret) \subseteq Keys(extensions)
              /\ undeclared.raised = NoName
              /\ Keys(ret) = Keys(undeclared.result)
              /\ Len(ret) = Len(undeclared.result)
        /\ RaisedCircular => undeclared.raised # NoName

C15_Witness ==
    /\ Returned
    /\ Len(ret) = 2
    /\ \E e \in Range(ret) :
          /\ e.deps \ Keys(extensions) # {}
          /\ e.deps \cap Keys(extensions) # {}
          /\ e.name \in args.opts
    /\ WithoutUnknownDeps(extensions) # extensions

\* C16 as claimed: register_extension under a name that is already in the
\* registry fails, and the registry still maps that name to the first
\* extension afterwards.
C16_DuplicateRejected ==
    /\ [](~registered.existed)
    /\ [][\A n \in Keys(extensions) \cap Keys(extensions') :
              Get(extensions', n) = Get(extensions, n)]_vars

\* C16: register_extension never fails.  Under a name that is already in
\* the registry the new extension replaces the stored one and keeps its
\* position (the last registration wins); a new name goes last; every other
\* entry is left as it was.
C16_LastRegistrationWins ==
    [][(pc = "idle" /\ pc' = "idle" /\ registered' # NoRegistration) =>
          LET e == registered'.ext
          IN  /\ registered'.existed = (e.name \in Keys(extensions))
              /\ Names(extensions') = IF e.name \in Keys(extensions)
                                      THEN Names(extensions)
                                      ELSE Append(Names(extensions), e.name)
              /\ \A i \in DOMAIN extensions' :
                    extensions'[i] = IF extensions'[i].name = e.name THEN e
                                     ELSE extensions[i]
              /\ outcome' = Running]_vars

C16_Witness ==
    /\ registered.existed
    /\ Len(extensions) >= 2
    /\ extensions[1] = registered.ext
    /\ registered.ext.deps # {}

\* C17: an entry point (cli.main, main.main, core.main) ends with exit code
\* 0 exactly when resolution, every validation and, unless --dry-run was
\* given, the build and the command all succeeded; any resolution,
\* validation, build or execution error ends it with a non-zero exit code.
C17_ExitCode ==
    (CliEntry /\ pc = "done") =>
        LET allOk == \A i \in DOMAIN trace : trace[i].ok
            resolved == outcome.phase # "resolve" /\ Returned
            finished == args.dry_run \/ \E i \in DOMAIN trace : trace[i].op = "exec"
        IN  /\ outcome.code \in {0, 1}
            /\ outcome.code = 0 <=> (resolved /\ allOk /\ finished)

C17_Witness ==
    /\ entry = "cli"
    /\ pc = "done"
    /\ outcome.code = 1
    /\ \E i \in DOMAIN trace : trace[i].op = "exec" /\ ~trace[i].ok

\* C18: when BasicExtension is registered it is in the active list for
\* every option set (empty options and options without a truthy 'basic'
\* included), and when it is the only registered extension the active list
\* is exactly [basic].
C18_BasicWhenRegistered ==
    (Returned /\ BasicExtension \in Range(extensions)) =>
        /\ BasicExtension \in Range(ret)
        /\ Len(extensions) = 1 => ret = << BasicExtension >>

C18_Witness ==
    /\ entry = "run"
    /\ extensions = << BasicExtension >>
    /\ args.opts = {}
    /\ ret = << BasicExtension >>

\* C19: an extension with the default activation predicate is in the
\* returned list iff its own option is truthy or it is reachable through
\* registered dependencies from an extension whose predicate holds; the
\* list holds registered extensions only, each once: it is the least
\* dependency-closed superset of the seed set.
C19_LeastClosedSuperset ==
    Returned =>
        /\ \A i \in DOMAIN extensions :
              LET e == extensions[i]
              IN  ~e.always =>
                      (e \in Range(ret) <=>
                          \/ e.name \in args.opts
                          \/ e.name \in DepReach(SeedNames(extensions, args), extensions))
        /\ Range(ret) \subseteq Range(extensions)
        /\ Keys(ret) = ExpectedNames
        /\ Cardinality(Keys(ret)) = Len(ret)

C19_Witness ==
    /\ Returned
    /\ args.opts = {"a"}
    /\ Keys(ret) = {"a", "b"}
    /\ "c" \in Keys(extensions)
    /\ Get(extensions, "c").deps = {"a"}

\* registered extensions that depend on each other in a cycle
OnDepCycle(S) ==
    \E x \in S \cap Keys(extensions), y \in S \cap Keys(extensions) :
        /\ x # y
        /\ y \in Get(extensions, x).deps
        /\ x \in Get(extensions, y).deps

\* C20: the dependency loop of get_active_extensions terminates: a pass
\* is always possible and never raises, the active dict only grows (by
\* distinct registered names), a pass that sets "changed" adds at least one
\* name, so there are at most as many such passes as registered names; the
\* loop ends with the dependency-closed set, cycles in the dependency
\* relation included.
C20_FixpointTerminates ==
    /\ [](pc = "deps" => ENABLED << DepPass >>_vars)
    /\ [](pc \in {"sort", "validate"} => Keys(active) = ExpectedNames)
    /\ [][pc = "deps" =>
             /\ SubSeq(active', 1, Len(active)) = active
             /\ Keys(active') \subseteq Keys(extensions)
             /\ Cardinality(Keys(active')) = Len(active')
             /\ Len(active') <= Len(extensions)
             /\ pc' = "deps" => Len(active') > Len(active)
             /\ pc' # "deps" => pc' = "sort" /\ active' = active
             /\ outcome' = outcome]_vars

C20_Witness ==
    /\ Returned
    /\ args.opts = {"a"}
    /\ OnDepCycle({"a", "b"})
    /\ Keys(ret) = {"a", "b"}

ExecIdx == { j \in DOMAIN trace : trace[j].op = "exec" }

\* C22: the backend executes a command at most once per run and exactly
\* once in a successful run that is not a dry run: it is the last call made,
\* it follows one successful setup_container per active extension, it runs
\* on the container the last of them returned, and it is the requested
\* command when one was given, a default shell command otherwise.
C22_CommandOnce ==
    /\ Cardinality(ExecIdx) <= 1
    /\ \A j \in ExecIdx :
          /\ j = Len(trace)
          /\ pc = "done"
          /\ ~(CliEntry /\ args.dry_run)
          /\ trace[j].cin = container
          /\ Len(SelectSeq(trace, LAMBDA ev : ev.op = "setup" /\ ev.ok))
                = Len(active_extensions)
          /\ IF args.command THEN trace[j].ext = "command"
             ELSE trace[j].ext \in {"/bin/bash", "echo No command specified"}
    /\ (pc = "done" /\ outcome.phase = "ok" /\ ~(CliEntry /\ args.dry_run)) =>
          \E j \in ExecIdx : trace[j].ok

C22_Witness ==
    /\ pc = "done"
    /\ outcome.phase = "ok"
    /\ args.command
    /\ Len(active_extensions) >= 2
    /\ \E j \in ExecIdx : trace[j].ok /\ Len(trace[j].cin) >= 3

\* the names of the open visit() calls
OnPath == { stack[i].name : i \in DOMAIN stack }

\* C23: during the topological sort every active name is unvisited, in
\* progress or done: temp_visited and visited are disjoint sets of active
\* names, temp_visited is exactly the current recursion path, the result
\* lists exactly the done names, a name becomes done in the step that
\* appends it to the result and takes it out of temp_visited, and on normal
\* return temp_visited is empty and visited is the active set.
C23_ThreeStates ==
    /\ []((pc = "sort" \/ Returned \/ RaisedCircular) =>
            /\ temp_visited \cap visited = {}
            /\ temp_visited \cup visited \subseteq Keys(active)
            /\ temp_visited = OnPath
            /\ Cardinality(temp_visited) = Len(stack)
            /\ Keys(result) = visited
            /\ Cardinality(visited) = Len(result))
    /\ [](Returned => temp_visited = {} /\ visited = Keys(active))
    /\ [][(pc = "sort" /\ visited' # visited) =>
            \E n \in temp_visited :
                /\ visited' = visited \cup {n}
                /\ temp_visited' = temp_visited \ {n}
                /\ result' = Append(result, Get(active, n))]_vars

C23_Witness ==
    /\ pc = "sort"
    /\ temp_visited # {}
    /\ visited # {}
    /\ Keys(active) \ (visited \cup temp_visited) # {}

IsPrefix(p, q) == Len(p) <= Len(q) /\ p = SubSeq(q, 1, Len(p))

\* the sort has placed every name and is about to return
SortDone == pc = "sort" /\ stack = << >> /\ idx > Len(active)

\* C24: no state is shared across run(args) calls on one core: whatever
\* calls came before and whatever they left in core.active_extensions, the
\* list a call computes (or the circular-hint error it raises) is one a
\* call with these options computes on this registry, the returned list
\* replaces core.active_extensions, and the validations and mutations of
\* the call are those of that list, in its order.
C24_NoSharedState ==
    /\ SortDone =>
          \E st \in AllResults(extensions, args) :
              st.raised = NoName /\ st.result = result
    /\ RaisedCircular =>
          \E st \in AllResults(extensions, args) : st.raised = outcome.ext
    /\ Returned =>
          /\ active_extensions = ret
          /\ IsPrefix(ValidatedBy("run"), Names(ret))
          /\ IsPrefix(EventNames(EventsOf({"setup"})), Names(ret))

C24_Witness ==
    /\ SortDone
    /\ trace = << >>
    /\ result # << >>
    /\ active_extensions # << >>
    /\ Keys(result) \cap Keys(active_extensions) = {}

\* the dict items with every declared dependency erased
WithoutDeps(items) == [ i \in DOMAIN items |-> [items[i] EXCEPT !.deps = {}] ]

\* position in the trace of the call op on the extension named n (0 if none)
CallPos(op, n) ==
    IF \E j \in DOMAIN trace : trace[j].op = op /\ trace[j].ext = n
    THEN CHOOSE j \in DOMAIN trace : trace[j].op = op /\ trace[j].ext = n
    ELSE 0

\* C25: ordering is driven by the hints only: the returned order is an
\* order the sort produces for the same active dict with all dependencies
\* erased, so a dependency that is not also a hint constrains nothing (an
\* extension pulled in as a dependency may come after its dependent).
C25_HintsOnlyOrder ==
    Returned =>
        \E st \in EachAll(Names(active), WithoutDeps(active),
                          [visited |-> {}, temp_visited |-> {}, result |-> << >>,
                           raised |-> NoName]) :
            st.raised = NoName /\ Names(st.result) = Names(ret)

\* C25 witness: D was pulled in only as a dependency of E, and E was
\* validated and set up before D.
C25_Witness ==
    /\ Returned
    /\ \E E \in Range(ret), D \in Range(ret) :
          /\ D.name \in E.deps \ E.hints
          /\ D.name \notin args.opts
          /\ Pos(ret, E.name) < Pos(ret, D.name)
          /\ CallPos("validate", E.name) >= 1
          /\ CallPos("validate", E.name) < CallPos("validate", D.name)
          /\ CallPos("setup", E.name) >= 1
          /\ CallPos("setup", E.name) < CallPos("setup", D.name)

\* C26: whenever the sort succeeds, the ordered list is a permutation of
\* the active dict: every active extension is in it exactly once and it
\* holds nothing else, also when an extension is hinted by several others.
C26_Permutation ==
    Returned =>
        /\ Len(ret) = Len(active)
        /\ Range(ret) = Range(active)
        /\ \A i, j \in DOMAIN ret : ret[i].name = ret[j].name => i = j

\* C26 witness: a returned list with an extension two others hint.
C26_Witness ==
    /\ Returned
    /\ Len(ret) = 3
    /\ \E x \in Range(ret) :
          Cardinality({ y \in Range(ret) : y # x /\ x.name \in y.hints }) = 2

\* C27: the circular-dependency error is raised only when the hints
\* restricted to the active set contain a cycle: when they do not - also
\* when a hint cycle passes through a registered extension that is not
\* active, or when the dependencies are cyclic - the sort can always go on
\* and never ends in the error.
C27_RaisesOnlyOnCycle ==
    (pc \notin {"idle", "deps"} /\ ~HasHintCycle(active)) =>
        /\ ~RaisedCircular
        /\ pc = "sort" => ENABLED (SortNext \/ VisitHint \/ VisitReturn \/ SortReturn)

\* C27 witness: a list was returned although an active extension and a
\* registered, inactive one hint each other.
C27_Witness ==
    /\ Returned
    /\ \E x \in Range(ret) :
          \E i \in DOMAIN extensions :
              /\ extensions[i].name \notin Keys(ret)
              /\ extensions[i].name \in x.hints
              /\ x.name \in extensions[i].hints

\* the active extensions that hint themselves
SelfHinting == { n \in Keys(active) : n \in Get(active, n).hints }

\* C28 as claimed: every active extension that hints itself makes
\* get_active_extensions fail with the circular-dependency error naming
\* that extension; no list is produced.
C28_SelfHintNamed ==
    (pc \notin {"idle", "deps"}) =>
        \A n \in SelfHinting :
            /\ ~Returned
            /\ pc = "done" => (RaisedCircular /\ outcome.ext = n)

\* C28: an active extension that hints itself is never ignored: no list is
\* produced, the sort can always go on and ends in the circular-dependency
\* error; the error names an active extension on a hint cycle (the first
\* one the sort runs into), which is the self-hinting extension when no
\* other active extension lies on a hint cycle.
C28_SelfHintRaises ==
    (pc \notin {"idle", "deps"} /\ SelfHinting # {}) =>
        /\ ~Returned
        /\ pc = "sort" => ENABLED (SortNext \/ VisitHint \/ VisitReturn)
        /\ pc = "done" =>
              /\ RaisedCircular
              /\ OnHintCycle(outcome.ext, active)
              /\ \A n \in SelfHinting :
                    (\A m \in Keys(active) : OnHintCycle(m, active) => m = n)
                        => outcome.ext = n

\* C28 witness: the error names a self-hinting extension after another
\* extension was placed.
C28_Witness ==
    /\ RaisedCircular
    /\ outcome.ext \in SelfHinting
    /\ result # << >>

\* the lists main printed as "Active extensions"
Printed == SelectSeq(stdout, LAMBDA line : line.tag = "active")

\* C29: in a run of cli.main without --dry-run the active extensions are
\* resolved and validated twice, in main and again in core.run: the list
\* core.run gets has the members and the order of the list main printed
\* and validated, and setup_container is called (the backend is touched)
\* only when core.run has resolved and has validated every extension of
\* the list in turn.
C29_ResolvedTwice ==
    (entry = "cli" /\ ~args.dry_run) =>
        /\ (where = "run" /\ Returned) =>
              /\ Len(Printed) = 1
              /\ Names(ret) = Printed[1].names
              /\ ValidatedBy("main") = Names(ret)
              /\ active_extensions = ret
        /\ EventsOf(BackendOps) # << >> =>
              /\ where = "run" /\ Returned
              /\ ValidatedBy("run") = Names(ret)
              /\ IsPrefix(EventNames(EventsOf({"setup"})), Printed[1].names)
              /\ \A j, k \in DOMAIN trace :
                    trace[j].op = "validate" /\ trace[k].op \in BackendOps => j < k
        /\ Len(ValidatedBy("run")) > 0 =>
              /\ where = "run"
              /\ ValidatedBy("main") = Printed[1].names

C29_Witness ==
    /\ entry = "cli" /\ ~args.dry_run
    /\ pc = "done" /\ outcome.phase = "ok"
    /\ Len(ret) >= 3
    /\ ValidatedBy("main") = ValidatedBy("run")
    /\ EventNames(EventsOf({"setup"})) = Names(ret)
    /\ Len(trace) = 3 * Len(ret) + 3

\* C30: build_and_run neither resolves nor validates: while it runs,
\* core.active_extensions and the resolver's state never change, it makes no
\* validate call, and it sets up the extensions of core.active_extensions
\* in list order (none on a fresh core, where the command runs on the
\* image).  When main.main or core.main calls it, the list is the one the
\* caller resolved, and the caller has validated every extension of it, in
\* that order and without error, before the call.
C30_BuildAndRunTrusts ==
    /\ [](where = "build_and_run" =>
            /\ \A j \in DOMAIN trace :
                  trace[j].op = "validate" => trace[j].by = "main" /\ trace[j].ok
            /\ \A j, k \in DOMAIN trace :
                  trace[j].op = "validate" /\ trace[k].op \in BackendOps => j < k
            /\ IsPrefix(EventNames(EventsOf({"setup"})), Names(active_extensions))
            /\ outcome.phase \notin {"resolve", "validate"}
            /\ (pc = "done" /\ outcome.phase = "ok") =>
                  EventNames(EventsOf({"setup"})) = Names(active_extensions)
            /\ entry \in {"main", "core_main"} =>
                  /\ active_extensions = ret
                  /\ ValidatedBy("main") = Names(active_extensions)
            /\ entry = "build_and_run" =>
                  /\ ~Returned /\ active = << >>
                  /\ ValidatedBy("main") = << >>
                  /\ (extensions = << >> /\ active_extensions = << >>) =>
                        \A j \in ExecIdx : trace[j].cin = << "image" >>)
    /\ [][where = "build_and_run" =>
            /\ where' = "build_and_run"
            /\ active_extensions' = active_extensions
            /\ UNCHANGED << active, ret, sortVars >>]_vars

C30_Witness ==
    /\ entry = "main"
    /\ where = "build_and_run"
    /\ pc = "done" /\ outcome.phase = "ok"
    /\ Len(active_extensions) >= 3
    /\ ValidatedBy("main") = EventNames(EventsOf({"setup"}))

=============================================================================
